---------------------------- MODULE Spec2Model ----------------------------
(***************************************************************************)
(* A model of the local RAG server (app.py) and of its chat client         *)
(* (ui_streamlit.py).                                                      *)
(*                                                                         *)
(* Python strings are TLA+ strings; Python values whose type matters       *)
(* (None, int, str) are tagged records.  The external collaborators (the   *)
(* PDF reader, the vector index, the LLM, the HTTP transport) are          *)
(* nondeterministic inputs of the actions.                                 *)
(***************************************************************************)
EXTENDS Integers, Sequences, FiniteSets, TLC

VARIABLES
    OPENAI_API_KEY,  \* app.py:22, read once from the environment
    fs,              \* the files on disk when the process starts
    reader,          \* what PyMuPDFReader does for each path
    _index,          \* app.py:43, the module-level index (None until built)
    calls,           \* how often each collaborator / handler has been called
    pending,         \* ask requests blocked in query_engine.query
    last,            \* the last event the server completed, with its result
    pdf_paths,       \* the argument of a direct _load_docs call
    loaded,          \* the outcome of that call
    nodes,           \* the argument of a direct _format_sources call
    sources,         \* the outcome of that call: None, or [out |-> list]
    upstream,        \* what query_engine.query did for one request
    reply,           \* the response the handler built from it
    session_state,   \* st.session_state of one browser session
    run              \* the widget values and backend outcome of the last run

vars == <<OPENAI_API_KEY, fs, reader, _index, calls, pending, last,
          pdf_paths, loaded, nodes, sources, upstream, reply, session_state,
          run>>

clientVars == <<session_state, run>>

serverVars == <<OPENAI_API_KEY, fs, _index, calls, pending, last>>
loaderVars == <<pdf_paths, loaded>>
formatVars == <<nodes, sources, upstream, reply>>

(***************************************************************************)
(* Bounds of the model.                                                    *)
(***************************************************************************)
MaxPaths == 2        \* length of the path list handed to _load_docs
MaxRetrieved == 3    \* nodes one query returns (the code asks for top 14)
MaxRequests == 2     \* ask requests received in one run of the server
MaxStartups == 2     \* startup events delivered in one run of the server
MaxPad == 2          \* leading / trailing whitespace around a chunk text
MaxTurns == 2        \* chat submissions in one browser session

(***************************************************************************)
(* Python values.                                                          *)
(***************************************************************************)
None == [t |-> "None"]
PyInt(n) == [t |-> "int", v |-> n]
PyStr(s) == [t |-> "str", v |-> s]

\* Python truthiness of None, an int or a str.
truthy(x) ==
    CASE x.t = "None" -> FALSE
      [] x.t = "int" -> x.v # 0
      [] x.t = "str" -> x.v # ""

\* Python's `a or b`: a when a is truthy, b otherwise.
PyOr(a, b) == IF truthy(a) THEN a ELSE b

\* Python's str() of None, an int or a str.
str(x) ==
    CASE x.t = "None" -> "None"
      [] x.t = "int" -> ToString(x.v)
      [] x.t = "str" -> x.v

\* dict.get(k): the value, or None when the key is absent.
get(md, k) == IF k \in DOMAIN md THEN md[k] ELSE None

\* d[k] = v
put(md, k, v) == [x \in (DOMAIN md) \cup {k} |-> IF x = k THEN v ELSE md[x]]

EmptyDict == [x \in {} |-> None]

Whitespace == {" ", "\t", "\n"}

RECURSIVE lstrip(_)
lstrip(s) ==
    IF Len(s) > 0 /\ Head(s) \in Whitespace THEN lstrip(Tail(s)) ELSE s

RECURSIVE rstrip(_)
rstrip(s) ==
    IF Len(s) > 0 /\ SubSeq(s, Len(s), Len(s)) \in Whitespace
    THEN rstrip(SubSeq(s, 1, Len(s) - 1))
    ELSE s

\* str.strip()
strip(s) == rstrip(lstrip(s))

\* Path(p).name: what follows the last "/".
RECURSIVE PathName(_)
PathName(p) ==
    IF \E i \in 1..Len(p) : SubSeq(p, i, i) = "/" THEN PathName(Tail(p)) ELSE p


(***************************************************************************)
(* Document loader (app.py:46-98).                                         *)
(***************************************************************************)
DATA_DIR == "data"

\* The paths that may exist on disk, in the order sorted() gives them.
FsUniverse ==
    <<"data/.cache.pdf", "data/a.pdf", "data/notes.txt",
      "data/sections/b.pdf", "data/sections/old/c.pdf">>

\* glob.glob(os.path.join(dir, "*.pdf")): the files directly under dir whose
\* name ends in ".pdf" and does not start with a dot.
glob(dir, files) ==
    {p \in files :
        /\ Len(p) > Len(dir) + 1
        /\ SubSeq(p, 1, Len(dir) + 1) = dir \o "/"
        /\ LET name == SubSeq(p, Len(dir) + 2, Len(p))
           IN /\ \A i \in 1..Len(name) : SubSeq(name, i, i) # "/"
              /\ Len(name) >= 4
              /\ SubSeq(name, Len(name) - 3, Len(name)) = ".pdf"
              /\ Head(name) # "."}

\* _discover_pdfs(): both globs, de-duplicated and sorted.
_discover_pdfs(files) ==
    LET found == glob(DATA_DIR, files) \cup glob(DATA_DIR \o "/sections", files)
    IN SelectSeq(FsUniverse, LAMBDA p : p \in found)

\* What one reader call does: it raises, or it returns a list of documents.
Raises == [ok |-> FALSE]
Returns(docs) == [ok |-> TRUE, docs |-> docs]

\* Lines 75-90: the metadata of document d, loaded from path p, normalised.
normalise(d, p) ==
    LET md0 == IF d.metadata = None \/ DOMAIN d.metadata = {}
               THEN EmptyDict ELSE d.metadata
        md1 == put(md0, "file_name", PyStr(PathName(p)))
        page_label ==
            PyOr(PyOr(PyOr(get(md1, "page_label"), get(md1, "page_number")),
                      get(md1, "page")),
                 get(md1, "page_index"))
        md2 == IF page_label # None
               THEN put(md1, "page_cite", PyStr(str(page_label)))
               ELSE md1
        md3 == put(md2, "source", PyOr(get(md2, "source"), PyStr(PathName(p))))
    IN [d EXCEPT !.metadata = md3]

\* A variant of load_one without the fallback to the older reader API.
load_one_newer_only(p, rd, acc) ==
    LET newer == rd.load_data[p]
    IN IF newer.ok
       THEN [acc EXCEPT !.docs = @ \o [i \in 1..Len(newer.docs) |->
                                          normalise(newer.docs[i], p)],
                        !.loads = @ + 1]
       ELSE [acc EXCEPT !.loads = @ + 1, !.log = Append(@, p)]

\* Lines 67-94: one iteration of the loop over pdf_paths.  acc holds the
\* documents accumulated so far, the number of reader calls made and the
\* paths whose failure was printed.
load_one(p, rd, acc) ==
    LET newer == rd.load_data[p]
        older == rd.load[p]
        got == IF newer.ok THEN newer ELSE older
        n == IF newer.ok THEN 1 ELSE 2
    IN IF got.ok
       THEN [acc EXCEPT !.docs = @ \o [i \in 1..Len(got.docs) |->
                                          normalise(got.docs[i], p)],
                        !.loads = @ + n]
       ELSE [acc EXCEPT !.loads = @ + n, !.log = Append(@, p)]

RECURSIVE load_loop(_, _, _)
load_loop(paths, rd, acc) ==
    IF paths = <<>> THEN acc
    ELSE load_loop(Tail(paths), rd, load_one(Head(paths), rd, acc))

NoPdfsFound == "No PDFs found. Place your PDFs under data/ or data/sections/"
NoTextExtracted == "No text extracted from PDFs (are they scanned without OCR?)"

\* A variant of _load_docs without the check of line 60.
_load_docs_unguarded(paths, rd) ==
    LET acc == load_loop(paths, rd, [docs |-> <<>>, loads |-> 0, log |-> <<>>])
    IN IF acc.docs = <<>>
       THEN [raised |-> TRUE, error |-> NoTextExtracted, docs |-> <<>>,
             readers |-> 1, loads |-> acc.loads, log |-> acc.log]
       ELSE [raised |-> FALSE, error |-> "", docs |-> acc.docs,
             readers |-> 1, loads |-> acc.loads, log |-> acc.log]

\* _load_docs(pdf_paths): the documents, or the RuntimeError raised; and
\* the PyMuPDFReader objects built, the reader calls made, the paths logged.
_load_docs(paths, rd) ==
    IF paths = <<>>
    THEN [raised |-> TRUE, error |-> NoPdfsFound, docs |-> <<>>,
          readers |-> 0, loads |-> 0, log |-> <<>>]
    ELSE LET acc == load_loop(paths, rd,
                              [docs |-> <<>>, loads |-> 0, log |-> <<>>])
         IN IF acc.docs = <<>>
            THEN [raised |-> TRUE, error |-> NoTextExtracted, docs |-> <<>>,
                  readers |-> 1, loads |-> acc.loads, log |-> acc.log]
            ELSE [raised |-> FALSE, error |-> "", docs |-> acc.docs,
                  readers |-> 1, loads |-> acc.loads, log |-> acc.log]

(***************************************************************************)
(* Values of the variables a specification does not use.                   *)
(***************************************************************************)
ZeroCalls ==
    [startup |-> 0, discover |-> 0, readers |-> 0, loads |-> 0, build |-> 0,
     requests |-> 0, engine |-> 0, query |-> 0]

NoReader == [load_data |-> EmptyDict, load |-> EmptyDict]

\* The value of last before the server has done anything.
NoEvent == [op |-> "none"]

ServerIdle ==
    /\ OPENAI_API_KEY = None
    /\ fs = {}
    /\ _index = None
    /\ calls = ZeroCalls
    /\ pending = EmptyDict
    /\ last = NoEvent

LoaderIdle == pdf_paths = <<>> /\ loaded = None
FormatIdle == nodes = <<>> /\ sources = None /\ upstream = None /\ reply = None
NoRun == [n |-> 0]

ClientIdle == session_state = EmptyDict /\ run = NoRun

(***************************************************************************)
(* _load_docs called directly: the inputs are drawn in the initial state.  *)
(***************************************************************************)
PdfPaths == {"data/a.pdf", "data/sections/b.pdf"}

PageKeys == <<"page_label", "page_number", "page", "page_index">>

\* The values the PDF reader may store under a page key.
PageValues == {None, PyInt(0), PyInt(12), PyStr(""), PyStr("iv")}

KeySet == {PageKeys[i] : i \in 1..Len(PageKeys)}

PageDicts == UNION {[K -> PageValues] : K \in SUBSET KeySet}

\* The i-th document the reader returns for path p through the given API.
RawDoc(p, api, i) ==
    [text |-> p \o "#" \o api \o ToString(i),
     metadata |-> CASE i = 1 /\ api = "load_data" ->
                         [source |-> PyStr("1"), page_label |-> PyStr("iv")]
                    [] i = 1 /\ api = "load" -> [page |-> PyInt(3)]
                    [] OTHER -> None]

NewerResults(p) ==
    {Raises, Returns(<<>>), Returns(<<RawDoc(p, "load_data", 1)>>),
     Returns(<<RawDoc(p, "load_data", 1), RawDoc(p, "load_data", 2)>>)}

OlderResults(p) == {Raises, Returns(<<RawDoc(p, "load", 1)>>)}

\* Every behaviour of the reader on PdfPaths.
Readers ==
    {[load_data |-> n, load |-> o] :
        n \in {f \in [PdfPaths -> UNION {NewerResults(p) : p \in PdfPaths}] :
                  \A p \in PdfPaths : f[p] \in NewerResults(p)},
        o \in {f \in [PdfPaths -> UNION {OlderResults(p) : p \in PdfPaths}] :
                  \A p \in PdfPaths : f[p] \in OlderResults(p)}}

RECURSIVE SeqsUpTo(_, _)
SeqsUpTo(S, n) ==
    IF n = 0 THEN {<<>>}
    ELSE LET shorter == SeqsUpTo(S, n - 1)
         IN shorter \cup {Append(q, x) : q \in shorter, x \in S}

\* A batch of paths with any reader behaviour, or one path whose single
\* document carries any combination of the page keys.
InitLoad ==
    /\ ServerIdle /\ FormatIdle /\ ClientIdle
    /\ loaded = None
    /\ \/ /\ pdf_paths \in SeqsUpTo(PdfPaths, MaxPaths)
          /\ reader \in Readers
       \/ /\ pdf_paths = <<"data/a.pdf">>
          /\ \E md \in PageDicts :
                reader =
                    [load_data |->
                        [p \in PdfPaths |->
                            Returns(<<[text |-> "page", metadata |-> md]>>)],
                     load |-> [p \in PdfPaths |-> Raises]]

LoadDocs ==
    /\ loaded = None
    /\ loaded' = _load_docs(pdf_paths, reader)
    /\ UNCHANGED <<serverVars, reader, pdf_paths, formatVars, clientVars>>

NextLoad == LoadDocs

SpecLoad == InitLoad /\ [][NextLoad]_vars

\* What the reader hands back for path p: the newer API's documents, else
\* the older API's, else nothing.
parses(p) == reader.load_data[p].ok \/ reader.load[p].ok

RawDocsOf(p) ==
    IF reader.load_data[p].ok THEN reader.load_data[p].docs
    ELSE IF reader.load[p].ok THEN reader.load[p].docs
    ELSE <<>>

RECURSIVE RawDocs(_)
RawDocs(paths) ==
    IF paths = <<>> THEN <<>> ELSE RawDocsOf(Head(paths)) \o RawDocs(Tail(paths))

Texts(ds) == [i \in 1..Len(ds) |-> ds[i].text]

\* The first page key, in priority order, that the dict holds with a value
\* other than None; 0 when there is none.
FirstPresent(md) ==
    LET present == {i \in 1..Len(PageKeys) : get(md, PageKeys[i]) # None}
    IN IF present = {} THEN 0
       ELSE CHOOSE i \in present : \A j \in present : i <= j

\* C3: every loaded fragment whose metadata holds a page key with a
\* non-null value (0 and "" included) gets page_cite = str() of the value
\* of the first such key in the order page_label, page_number, page,
\* page_index.
C3_PageCiteFirstNonNull ==
    (loaded # None /\ ~loaded.raised) =>
        \A i \in 1..Len(loaded.docs) :
            LET raw == RawDocs(pdf_paths)[i].metadata
                md == IF raw = None THEN EmptyDict ELSE raw
                k == FirstPresent(md)
            IN k # 0 =>
                get(loaded.docs[i].metadata, "page_cite")
                    = PyStr(str(md[PageKeys[k]]))

\* C7: each path is tried on its own; a path that fails to parse adds
\* nothing and is logged, the fragments of the paths that parse come back
\* in path order, and the load raises "No text extracted" exactly when no
\* fragment was accumulated.
C7_SoftFailPerPath ==
    (loaded # None /\ pdf_paths # <<>>) =>
        /\ loaded.raised <=> RawDocs(pdf_paths) = <<>>
        /\ loaded.raised => loaded.error = NoTextExtracted
        /\ ~loaded.raised => Texts(loaded.docs) = Texts(RawDocs(pdf_paths))
        /\ loaded.log = SelectSeq(pdf_paths, LAMBDA p : ~parses(p))

\* A load of two paths in which one failed to parse and the other's
\* fragments were returned.
C7_Witness ==
    /\ loaded # None
    /\ ~loaded.raised
    /\ Len(pdf_paths) >= 2
    /\ Len(loaded.log) = 1
    /\ Len(loaded.docs) >= 1

(***************************************************************************)
(* Citation formatter (app.py:129-163).                                    *)
(***************************************************************************)
SnippetMax == 360

\* Stands for the one-character ellipsis U+2026 that line 160 appends.
Ellipsis == "~"

\* Lines 133-134: the node inside a NodeWithScore (or the raw node), and its
\* metadata dict.
node_of(n) == IF "node" \in DOMAIN n /\ n.node # None THEN n.node ELSE n

metadata_of(node) ==
    IF "metadata" \notin DOMAIN node THEN EmptyDict
    ELSE IF node.metadata = None \/ DOMAIN node.metadata = {} THEN EmptyDict
    ELSE node.metadata

\* Lines 137-142.
source_of(md) ==
    LET fp == get(md, "file_path")
    IN PyOr(PyOr(PyOr(get(md, "file_name"), get(md, "source")),
                 IF truthy(fp) THEN PyStr(PathName(fp.v)) ELSE fp),
            PyStr("unknown.pdf"))

\* Lines 143-151.
page_of(md) ==
    str(PyOr(PyOr(PyOr(PyOr(PyOr(get(md, "page_cite"), get(md, "page_label")),
                            get(md, "page_number")),
                       get(md, "page")),
                  get(md, "page_index")),
             PyStr("?")))

\* Lines 154-157: node.get_content(metadata_mode="none"), or the text
\* attribute when that call raises.
content_of(node) ==
    IF node.get_content = "ok" THEN node.text
    ELSE PyOr(PyStr(node.text), PyStr("")).v

\* A variant of snippet_of that cuts the text before trimming it.
snippet_cut_then_trim(node) ==
    LET raw == content_of(node)
    IN IF Len(raw) > SnippetMax
       THEN strip(SubSeq(raw, 1, SnippetMax)) \o Ellipsis
       ELSE strip(raw)

\* Lines 158-160.
snippet_of(node) ==
    LET s == strip(content_of(node))
    IN IF Len(s) > SnippetMax THEN SubSeq(s, 1, SnippetMax) \o Ellipsis ELSE s

\* _format_sources(nodes)
_format_sources(ns) ==
    [i \in 1..Len(ns) |->
        LET node == node_of(ns[i])
            md == metadata_of(node)
        IN [source |-> source_of(md), page |-> page_of(md),
            snippet |-> snippet_of(node)]]

(***************************************************************************)
(* _format_sources called directly on one retrieved chunk.                 *)
(***************************************************************************)
RECURSIVE Rep(_, _)
Rep(c, n) ==
    IF n = 0 THEN ""
    ELSE IF n % 2 = 0 THEN LET h == Rep(c, n \div 2) IN h \o h
    ELSE c \o Rep(c, n - 1)

\* Chunk bodies: n characters, optionally with a blank next to the end.
Body(n, blank) ==
    IF blank /\ n >= 3 THEN Rep("x", n - 2) \o " " \o "y" ELSE Rep("x", n)

BodyLens == {0, 1} \cup ((SnippetMax - 2)..(SnippetMax + 2))

ChunkTexts ==
    {Rep(w, l) \o Body(n, b) \o Rep(w, t) :
        w \in {" ", "\n"}, l \in 0..MaxPad, t \in 0..MaxPad,
        n \in BodyLens, b \in BOOLEAN}

ChunkDicts ==
    {[file_name |-> PyStr("a.pdf"), page_cite |-> PyStr("iv"),
      source |-> PyStr("3")],
     [file_path |-> PyStr("data/sections/b.pdf"), page_index |-> PyInt(0)]}

Chunks ==
    {[metadata |-> md, text |-> tx, get_content |-> gc] :
        md \in ChunkDicts \cup {None}, tx \in ChunkTexts,
        gc \in {"ok", "raises"}}

InitFormat ==
    /\ ServerIdle /\ LoaderIdle /\ ClientIdle
    /\ reader = NoReader
    /\ sources = None /\ upstream = None /\ reply = None
    /\ \E c \in Chunks : nodes \in {<<c>>, <<[node |-> c, score |-> 1]>>}

FormatSources ==
    /\ sources = None
    /\ sources' = [out |-> _format_sources(nodes)]
    /\ UNCHANGED <<serverVars, reader, loaderVars, nodes, upstream, reply,
                   clientVars>>

NextFormat == FormatSources

SpecFormat == InitFormat /\ [][NextFormat]_vars

\* C5 as amended: a chunk whose TRIMMED text is longer than 360 characters
\* gets a snippet of exactly 361 characters, the first 360 of the trimmed
\* text and the ellipsis; any other chunk gets its trimmed text.
C5_SnippetOfTrimmedText ==
    sources # None =>
        \A i \in 1..Len(nodes) :
            LET t == strip(node_of(nodes[i]).text)
                sn == sources.out[i].snippet
            IN IF Len(t) > SnippetMax
               THEN /\ Len(sn) = SnippetMax + 1
                    /\ SubSeq(sn, 1, SnippetMax) = SubSeq(t, 1, SnippetMax)
                    /\ SubSeq(sn, SnippetMax + 1, SnippetMax + 1) = Ellipsis
               ELSE sn = t

\* C5 as stated: a chunk whose text is longer than 360 characters gets a
\* snippet of exactly 361 characters; a text of at most 360 characters
\* gets the trimmed text.
C5_SnippetOfRawText ==
    sources # None =>
        \A i \in 1..Len(nodes) :
            LET raw == node_of(nodes[i]).text
                sn == sources.out[i].snippet
            IN IF Len(raw) > SnippetMax
               THEN Len(sn) = SnippetMax + 1
               ELSE sn = strip(raw)

\* A padded chunk whose trimmed text is longer than 360 characters has been
\* formatted.
C5_Witness ==
    /\ sources # None
    /\ \E i \in 1..Len(nodes) :
          LET raw == node_of(nodes[i]).text
          IN /\ Len(strip(raw)) > SnippetMax
             /\ Len(raw) > Len(strip(raw))
             /\ Len(sources.out[i].snippet) = SnippetMax + 1

(***************************************************************************)
(* Index builder and startup (app.py:101-126).                             *)
(***************************************************************************)
MissingKey == "Missing OPENAI_API_KEY in .env"
EmbeddingFailed == "embedding request failed"

\* _init_index(): the index built, or the error raised, and the calls made
\* on the way.  buildOk says whether VectorStoreIndex.from_documents (the
\* embedding collaborator) succeeds.
_init_index(key, files, rd, buildOk) ==
    IF ~truthy(key)
    THEN [raised |-> TRUE, error |-> MissingKey, index |-> None,
          discover |-> 0, readers |-> 0, loads |-> 0, build |-> 0]
    ELSE LET pdfs == _discover_pdfs(files)
             ld == _load_docs(pdfs, rd)
         IN IF ld.raised
            THEN [raised |-> TRUE, error |-> ld.error, index |-> None,
                  discover |-> 1, readers |-> ld.readers, loads |-> ld.loads,
                  build |-> 0]
            ELSE IF ~buildOk
            THEN [raised |-> TRUE, error |-> EmbeddingFailed, index |-> None,
                  discover |-> 1, readers |-> ld.readers, loads |-> ld.loads,
                  build |-> 1]
            ELSE [raised |-> FALSE, error |-> "", index |-> [docs |-> ld.docs],
                  discover |-> 1, readers |-> ld.readers, loads |-> ld.loads,
                  build |-> 1]

\* A variant of _on_startup without the `if _index is None` test.
_on_startup_always(index, key, files, rd, buildOk) ==
    _init_index(key, files, rd, buildOk)

\* _on_startup(): what the handler does given the current _index.  A
\* handler that finds the index built calls nothing and leaves it.
_on_startup(index, key, files, rd, buildOk) ==
    IF index = None
    THEN _init_index(key, files, rd, buildOk)
    ELSE [raised |-> FALSE, error |-> "", index |-> index,
          discover |-> 0, readers |-> 0, loads |-> 0, build |-> 0]

(***************************************************************************)
(* Query service (app.py:166-210).                                         *)
(***************************************************************************)
SYSTEM_INSTRUCTIONS ==
    "You answer only from the provided report PDFs in the index. "
    \o "If the information is not present, say you cannot find it in the report. "
    \o "Always include exact page numbers from the source documents. "
    \o "When the question mentions a figure or table, rely on the text and captions in the PDFs."

IndexNotReady == "Index not ready"
MissingQuestion == "Missing question"

HTTPException(status, detail) == [status |-> status, detail |-> detail]

\* Line 203.
label(s) == str(s.source) \o " p." \o s.page

\* Lines 201-205: the labels in citation order, first occurrence only.
RECURSIVE pages_loop(_, _)
pages_loop(cs, pages) ==
    IF cs = <<>> THEN pages
    ELSE LET l == label(Head(cs))
         IN pages_loop(Tail(cs),
                       IF \E i \in 1..Len(pages) : pages[i] = l
                       THEN pages ELSE Append(pages, l))

\* sep.join(items)
RECURSIVE join(_, _)
join(sep, items) ==
    IF items = <<>> THEN ""
    ELSE IF Len(items) = 1 THEN items[1]
    ELSE items[1] \o sep \o join(sep, Tail(items))

\* Lines 196-206: the answer text, with the Pages line when there are
\* citations.
answer_of(text, cs) ==
    IF cs # <<>>
    THEN strip(text) \o "\n\nPages: " \o join("; ", pages_loop(cs, <<>>))
    ELSE strip(text)

\* Lines 171-176: the checks made before the try block.  The result is the
\* HTTPException raised, or None when the request goes on to the query.
question_of(payload) == strip(PyOr(get(payload, "question"), PyStr("")).v)

\* A variant of ask_check that tests the question before the index.
ask_check_question_first(index, payload) ==
    IF question_of(payload) = "" THEN HTTPException(400, MissingQuestion)
    ELSE IF index = None THEN HTTPException(500, IndexNotReady)
    ELSE None

ask_check(index, payload) ==
    IF index = None THEN HTTPException(500, IndexNotReady)
    ELSE IF question_of(payload) = "" THEN HTTPException(400, MissingQuestion)
    ELSE None

\* Lines 186-192 (the dash of "1-3" is an en dash in the source).
full_prompt(q) ==
    SYSTEM_INSTRUCTIONS \o "\n\n"
    \o "Answer in 1-3 short paragraphs (no bullet points). "
    \o "Be concise, specific, and grounded in the report. "
    \o "Include exact page numbers at the end as: Pages: p.X; p.Y.\n\n"
    \o "Question: " \o q

\* A variant of ask_finish whose handler answers with what it has when the
\* citations cannot be formatted.
ask_finish_partial(up) ==
    IF up.fail = "format"
    THEN [status |-> 200,
          body |-> [answer |-> strip(up.text), citations |-> <<>>]]
    ELSE IF up.fail # "none"
    THEN HTTPException(500, "QA error: " \o up.error)
    ELSE LET cs == _format_sources(up.source_nodes)
         IN [status |-> 200,
             body |-> [answer |-> answer_of(up.text, cs), citations |-> cs]]

\* Lines 194-210: what the handler returns once query_engine.query has
\* returned or raised.  up is the upstream outcome: the step that raised
\* (if any) with its message, the response text and its source nodes.
ask_finish(up) ==
    IF up.fail # "none"
    THEN HTTPException(500, "QA error: " \o up.error)
    ELSE LET cs == _format_sources(up.source_nodes)
         IN [status |-> 200,
             body |-> [answer |-> answer_of(up.text, cs), citations |-> cs]]

(***************************************************************************)
(* The server: startup events and ask requests in any order.  A request    *)
(* that reaches query_engine.query blocks there, so that other requests    *)
(* and events run while it waits.                                          *)
(***************************************************************************)
Files == {FsUniverse[i] : i \in 1..Len(FsUniverse)}

\* The directory contents the server may start on: any of the two PDFs,
\* with or without the files that _discover_pdfs must not pick up.
Disks ==
    {P \cup N : P \in SUBSET PdfPaths, N \in {{}, Files \ PdfPaths}}

ApiKeys == {None, PyStr(""), PyStr("sk-test")}

\* Two readers: one parses a.pdf with the newer API and b.pdf with the older
\* one; the other extracts nothing from any file.
ServerReaders ==
    {[load_data |->
        [p \in PdfPaths |->
            IF p = "data/a.pdf"
            THEN Returns(<<RawDoc(p, "load_data", 1), RawDoc(p, "load_data", 2)>>)
            ELSE Raises],
      load |-> [p \in PdfPaths |-> Returns(<<RawDoc(p, "load", 1)>>)]],
     [load_data |->
        [p \in PdfPaths |->
            IF p = "data/a.pdf" THEN Raises ELSE Returns(<<>>)],
      load |-> [p \in PdfPaths |-> Raises]]}

Payloads ==
    {EmptyDict, [question |-> PyStr("")], [question |-> PyStr(" \n\t")],
     [question |-> PyStr(" What is the report about? ")]}

\* The chunks retrieval may return, each as a NodeWithScore.
NodePool ==
    {[node |-> [metadata |-> md, text |-> tx, get_content |-> "ok"],
      score |-> 1] :
        <<md, tx>> \in
            {<<[file_name |-> PyStr("a.pdf"), page_cite |-> PyStr("12")],
               " The basin spans 12 sites. ">>,
             <<[file_name |-> PyStr("a.pdf"), page_cite |-> PyStr("1.pdf p.2")],
               "Labelled page.">>,
             <<[file_name |-> PyStr("a.pdf p.1.pdf"), page_cite |-> PyStr("2")],
               "Second file.">>,
             <<None, "">>}}

AnswerTexts == {" The report covers the basin.\n", ""}

\* What query_engine.query and the formatting after it may do: a step
\* raises, or the response text comes back with the retrieved nodes.
Failures ==
    {[fail |-> f, error |-> f \o " failed", text |-> "", source_nodes |-> <<>>] :
        f \in {"retrieval", "generation"}}
    \cup {[fail |-> "format", error |-> "format failed",
           text |-> "Half an answer", source_nodes |-> <<n>>] :
            n \in NodePool}

Successes(nodeLists) ==
    {[fail |-> "none", error |-> "", text |-> tx, source_nodes |-> ns] :
        tx \in AnswerTexts, ns \in nodeLists}

\* The outcomes the server specification draws from: the failures, and
\* answers citing no chunk, one chunk or one chunk twice.
Upstreams ==
    Failures
    \cup Successes({<<>>} \cup {<<n>> : n \in NodePool}
                   \cup {<<n, n>> : n \in NodePool})

EngineFailure ==
    [fail |-> "engine", error |-> "engine failed", text |-> "",
     source_nodes |-> <<>>]

InitServer ==
    /\ LoaderIdle /\ FormatIdle /\ ClientIdle
    /\ OPENAI_API_KEY \in ApiKeys
    /\ fs \in Disks
    /\ reader \in ServerReaders
    /\ _index = None
    /\ calls = ZeroCalls
    /\ pending = EmptyDict
    /\ last = NoEvent

\* The startup event: _on_startup runs to its end.
OnStartup ==
    /\ calls.startup < MaxStartups
    /\ \E buildOk \in BOOLEAN :
          LET r == _on_startup(_index, OPENAI_API_KEY, fs, reader, buildOk)
          IN /\ _index' = IF r.raised THEN _index ELSE r.index
             /\ calls' = [calls EXCEPT !.startup = @ + 1,
                                       !.discover = @ + r.discover,
                                       !.readers = @ + r.readers,
                                       !.loads = @ + r.loads,
                                       !.build = @ + r.build]
             /\ last' = [op |-> "startup", raised |-> r.raised,
                         error |-> r.error]
    /\ UNCHANGED <<OPENAI_API_KEY, fs, reader, pending, loaderVars,
                   formatVars, clientVars>>

\* POST /ask arrives: the handler runs up to its response, or up to the
\* call of query_engine.query, where it blocks.
AskReceive ==
    /\ calls.requests < MaxRequests
    /\ \E payload \in Payloads, engineOk \in BOOLEAN :
          LET id == calls.requests + 1
              chk == ask_check(_index, payload)
          IN IF chk # None
             THEN /\ last' = [op |-> "ask", id |-> id, payload |-> payload,
                              fail |-> "none", text |-> "", response |-> chk]
                  /\ calls' = [calls EXCEPT !.requests = @ + 1]
                  /\ pending' = pending
             ELSE IF ~engineOk
             THEN /\ last' = [op |-> "ask", id |-> id, payload |-> payload,
                              fail |-> "engine", text |-> "",
                              response |-> ask_finish(EngineFailure)]
                  /\ calls' = [calls EXCEPT !.requests = @ + 1,
                                            !.engine = @ + 1]
                  /\ pending' = pending
             ELSE /\ last' = [op |-> "ask", id |-> id, payload |-> payload,
                              fail |-> "none", text |-> "", response |-> None]
                  /\ calls' = [calls EXCEPT !.requests = @ + 1,
                                            !.engine = @ + 1,
                                            !.query = @ + 1]
                  /\ pending' = put(pending, id,
                                    [payload |-> payload,
                                     prompt |-> full_prompt(question_of(payload))])
    /\ UNCHANGED <<OPENAI_API_KEY, fs, reader, _index, loaderVars, formatVars,
                   clientVars>>

\* query_engine.query returns or raises for a blocked request, and the
\* handler runs to its response.
AskReturn ==
    /\ \E id \in DOMAIN pending, up \in Upstreams :
          /\ last' = [op |-> "ask", id |-> id, payload |-> pending[id].payload,
                      fail |-> up.fail, text |-> up.text,
                      response |-> ask_finish(up)]
          /\ pending' = [i \in (DOMAIN pending) \ {id} |-> pending[i]]
    /\ UNCHANGED <<OPENAI_API_KEY, fs, reader, _index, calls, loaderVars,
                   formatVars, clientVars>>

NextServer == OnStartup \/ AskReceive \/ AskReturn

SpecServer == InitServer /\ [][NextServer]_vars

\* The question of the request the last step handled is missing, empty or
\* blank.
BlankQuestion(ev) == ev.op = "ask" /\ question_of(ev.payload) = ""

\* C1 as stated: a request whose question is missing, empty or blank is
\* answered 400, whether the index is built or not, and no query engine is
\* made or called for it.
C1_BlankQuestionAlways400 ==
    [][(calls'.requests = calls.requests + 1 /\ BlankQuestion(last')) =>
          /\ last'.response # None
          /\ last'.response.status = 400
          /\ calls'.engine = calls.engine
          /\ calls'.query = calls.query
          /\ pending' = pending]_vars

\* C1 as amended: such a request is answered 400 "Missing question" when
\* the index is built and 500 "Index not ready" when it is not; in both
\* cases no query engine is made or called for it.
C1_BlankQuestionNoRetrieval ==
    [][(calls'.requests = calls.requests + 1 /\ BlankQuestion(last')) =>
          /\ last'.response =
                IF _index = None THEN HTTPException(500, IndexNotReady)
                ELSE HTTPException(400, MissingQuestion)
          /\ calls'.engine = calls.engine
          /\ calls'.query = calls.query
          /\ pending' = pending]_vars

\* A blank question was answered 400 on a built index.
C1_Witness ==
    /\ _index # None
    /\ BlankQuestion(last)
    /\ last.response = HTTPException(400, MissingQuestion)

\* C2: a request with a question, on a built index, in which making the
\* query engine, retrieval, generation or the formatting of the citations
\* raises, is answered by exactly one error: status 500 with a message in
\* detail and no answer or citations; the step leaves _index as it was.
C2_FailureIsOne500 ==
    [][((calls' # calls \/ pending' # pending)
        /\ last'.op = "ask" /\ last'.fail # "none") =>
          /\ question_of(last'.payload) # "" /\ _index # None
          /\ DOMAIN last'.response = {"status", "detail"}
          /\ last'.response.status = 500
          /\ Len(last'.response.detail) > Len("QA error: ")
          /\ _index' = _index]_vars

\* The formatting of the citations raised after the model had answered, and
\* the request was answered 500.
C2_Witness ==
    /\ last.op = "ask"
    /\ last.fail = "format"
    /\ last.response.status = 500
    /\ calls.requests = 2

\* C6: on a disk where _discover_pdfs finds nothing, no reader is built or
\* called, nothing is indexed, _index stays None, every startup raises the
\* configuration error and every ask is answered 500 "Index not ready".
C6_NoPdfsNeverReady ==
    _discover_pdfs(fs) = <<>> =>
        /\ _index = None
        /\ calls.readers = 0 /\ calls.loads = 0 /\ calls.build = 0
        /\ last.op = "startup" =>
              /\ last.raised
              /\ last.error =
                    IF truthy(OPENAI_API_KEY) THEN NoPdfsFound ELSE MissingKey
        /\ last.op = "ask" => last.response = HTTPException(500, IndexNotReady)

\* With the key set and only non-PDF files on disk, startup has raised and a
\* later ask has been answered.
C6_Witness ==
    /\ _discover_pdfs(fs) = <<>>
    /\ fs # {}
    /\ truthy(OPENAI_API_KEY)
    /\ calls.startup >= 1 /\ calls.discover >= 1
    /\ last.op = "ask"

\* C8: _index changes only in a startup step, from None to the index built
\* in that step; once it is built no step discovers, loads or indexes
\* again, and no ask step assigns it; without credentials no discovery,
\* reader or indexing call is ever made.
C8_IndexBuiltOnce ==
    [][/\ _index # None =>
            /\ _index' = _index
            /\ calls'.discover = calls.discover
            /\ calls'.loads = calls.loads
            /\ calls'.build = calls.build
       /\ _index' # _index =>
            /\ calls'.startup = calls.startup + 1
            /\ calls'.build = calls.build + 1
            /\ calls'.requests = calls.requests
            /\ pending' = pending
       /\ ~truthy(OPENAI_API_KEY) =>
            /\ calls'.discover = 0 /\ calls'.readers = 0
            /\ calls'.loads = 0 /\ calls'.build = 0]_vars

\* The index is built, a second startup event was delivered, and requests
\* were served, one of them still blocked in its query.
C8_Witness ==
    /\ _index # None
    /\ calls.startup >= 2
    /\ calls.build = 1
    /\ calls.requests >= 2
    /\ pending # EmptyDict

(***************************************************************************)
(* Lines 194-210 on their own: the response built from one upstream        *)
(* outcome.                                                                *)
(***************************************************************************)
InitAnswer ==
    /\ ServerIdle /\ LoaderIdle /\ ClientIdle
    /\ reader = NoReader
    /\ nodes = <<>> /\ sources = None
    /\ upstream \in Failures \cup {EngineFailure}
                    \cup Successes(SeqsUpTo(NodePool, MaxRetrieved))
    /\ reply = None

AnswerQuery ==
    /\ reply = None
    /\ reply' = ask_finish(upstream)
    /\ UNCHANGED <<serverVars, reader, loaderVars, nodes, sources, upstream,
                   clientVars>>

NextAnswer == AnswerQuery

SpecAnswer == InitAnswer /\ [][NextAnswer]_vars

\* The citations whose (source, page) pair no earlier citation has.
RECURSIVE DistinctPairs(_, _)
DistinctPairs(cs, seen) ==
    IF cs = <<>> THEN <<>>
    ELSE LET pair == <<Head(cs).source, Head(cs).page>>
         IN IF pair \in seen THEN DistinctPairs(Tail(cs), seen)
            ELSE <<Head(cs)>> \o DistinctPairs(Tail(cs), seen \cup {pair})

\* C4: a successful answer with citations is the model's text followed by
\* one line "Pages: ..." that lists every distinct (source, page) pair of
\* the citations once, in order of first occurrence; without citations the
\* answer is the model's text alone.
C4_PagesLineListsEachPairOnce ==
    (reply # None /\ reply.status = 200) =>
        LET cs == reply.body.citations
            firsts == DistinctPairs(cs, {})
        IN reply.body.answer =
              IF cs = <<>> THEN strip(upstream.text)
              ELSE strip(upstream.text) \o "\n\nPages: "
                   \o join("; ", [i \in 1..Len(firsts) |->
                                     str(firsts[i].source) \o " p."
                                     \o firsts[i].page])

(***************************************************************************)
(* Chat client (ui_streamlit.py).  Streamlit runs the whole script once    *)
(* when the session opens and once for every widget event; the button is  *)
(* True only in the run its click causes, and chat_input returns a text    *)
(* only in the run its submission causes.                                  *)
(***************************************************************************)
Greeting ==
    [role |-> "assistant",
     content |-> "Ask a question about the CSIRO-GESIRA report on resources in the Northern Perth Basin."]

BackendError == "Backend error: "

Ok(answer) == [ok |-> TRUE, text |-> answer]
Err(e) == [ok |-> FALSE, text |-> e]

\* Whether rendering a citation list raises: an entry that is no dict has
\* no get().
renders(citations) ==
    \A i \in 1..Len(citations) : "t" \notin DOMAIN citations[i]

\* Lines 39-66, the body of the try block: the answer to append, or the
\* message of the exception raised.  resp is what requests.post did.
try_backend(resp, show_citations) ==
    IF resp.raises THEN Err(resp.error)
    ELSE IF resp.status_code # 200 THEN Err(resp.text)
    ELSE IF resp.json = None THEN Err("Expecting value: line 1 column 1 (char 0)")
    ELSE LET data == resp.json
             a == IF "answer" \in DOMAIN data THEN data.answer ELSE PyStr("")
             citations == IF "citations" \in DOMAIN data
                          THEN data.citations ELSE <<>>
         IN IF a.t # "str"
            THEN Err("'NoneType' object has no attribute 'strip'")
            ELSE IF show_citations /\ citations # <<>> /\ ~renders(citations)
            THEN Err("'str' object has no attribute 'get'")
            ELSE Ok(PyOr(PyStr(strip(a.v)), PyStr("(no answer)")).v)

\* A variant of the script whose except branch shows the error without
\* appending it to the transcript.
script_error_not_kept(ss, clear_chat, q, show_citations, resp) ==
    LET ss1 == IF clear_chat \/ "messages" \notin DOMAIN ss
               THEN put(ss, "messages", <<Greeting>>)
               ELSE ss
    IN IF ~truthy(q) THEN ss1
       ELSE LET asked == Append(ss1.messages,
                                [role |-> "user", content |-> q.v])
                got == try_backend(resp, show_citations)
            IN put(ss1, "messages",
                   IF got.ok
                   THEN Append(asked, [role |-> "assistant",
                                       content |-> got.text])
                   ELSE asked)

\* A variant of the script in which the button empties the transcript
\* without seeding the greeting.
script_clear_empties(ss, clear_chat, q, show_citations, resp) ==
    LET ss1 == IF clear_chat THEN put(ss, "messages", <<>>)
               ELSE IF "messages" \notin DOMAIN ss
               THEN put(ss, "messages", <<Greeting>>)
               ELSE ss
    IN IF ~truthy(q) THEN ss1
       ELSE LET asked == Append(ss1.messages,
                                [role |-> "user", content |-> q.v])
                got == try_backend(resp, show_citations)
            IN put(ss1, "messages",
                   Append(asked,
                          [role |-> "assistant",
                           content |-> IF got.ok THEN got.text
                                       ELSE BackendError \o got.text]))

\* One run of the script: the session state it leaves.
script(ss, clear_chat, q, show_citations, resp) ==
    LET ss1 == IF clear_chat \/ "messages" \notin DOMAIN ss
               THEN put(ss, "messages", <<Greeting>>)
               ELSE ss
    IN IF ~truthy(q) THEN ss1
       ELSE LET asked == Append(ss1.messages,
                                [role |-> "user", content |-> q.v])
                got == try_backend(resp, show_citations)
            IN put(ss1, "messages",
                   Append(asked,
                          [role |-> "assistant",
                           content |-> IF got.ok THEN got.text
                                       ELSE BackendError \o got.text]))

Questions == {PyStr("What is the report about?"), PyStr("Which page?")}

\* What the POST does: it raises (timeout, refused connection), or it
\* returns a status, a body text and, when the body is JSON, its value.
NoResponse == [raises |-> FALSE, status_code |-> 0, text |-> "", json |-> None]

Responses ==
    {[raises |-> TRUE, error |-> "Read timed out. (read timeout=90)",
      status_code |-> 0, text |-> "", json |-> None],
     [raises |-> FALSE, error |-> "", status_code |-> 500,
      text |-> "{\"detail\":\"Index not ready\"}",
      json |-> [detail |-> PyStr("Index not ready")]],
     [raises |-> FALSE, error |-> "", status_code |-> 400,
      text |-> "{\"detail\":\"Missing question\"}",
      json |-> [detail |-> PyStr("Missing question")]],
     [raises |-> FALSE, error |-> "", status_code |-> 200,
      text |-> "<html>", json |-> None]}
    \cup {[raises |-> FALSE, error |-> "", status_code |-> 200, text |-> "{}",
           json |-> d] :
            d \in {EmptyDict,
                   [answer |-> None],
                   [answer |-> PyStr(" \n")],
                   [answer |-> PyStr(" It covers the basin.\n\nPages: a.pdf p.12 "),
                    citations |-> <<[source |-> PyStr("a.pdf"),
                                     page |-> PyStr("12"),
                                     snippet |-> PyStr("The basin")]>>],
                   [answer |-> PyStr("See page iv."),
                    citations |-> <<PyStr("a.pdf p.iv")>>]}}

InitClient ==
    /\ ServerIdle /\ LoaderIdle /\ FormatIdle
    /\ reader = NoReader
    /\ session_state = EmptyDict
    /\ run = NoRun

Transcript == IF "messages" \in DOMAIN session_state
              THEN session_state.messages ELSE <<>>

\* The session opens, or a sidebar widget other than the button changes.
Rerun ==
    /\ \E show \in BOOLEAN :
          /\ session_state' = script(session_state, FALSE, None, show, NoResponse)
          /\ run' = [n |-> Len(Transcript), clear_chat |-> FALSE, q |-> None,
                     show_citations |-> show, resp |-> NoResponse]
    /\ UNCHANGED <<serverVars, reader, loaderVars, formatVars>>

\* "Clear conversation" is clicked.
ClearChat ==
    /\ "messages" \in DOMAIN session_state
    /\ \E show \in BOOLEAN :
          /\ session_state' = script(session_state, TRUE, None, show, NoResponse)
          /\ run' = [n |-> Len(Transcript), clear_chat |-> TRUE, q |-> None,
                     show_citations |-> show, resp |-> NoResponse]
    /\ UNCHANGED <<serverVars, reader, loaderVars, formatVars>>

\* A question is submitted in the chat input.
Submit ==
    /\ "messages" \in DOMAIN session_state
    /\ Len(session_state.messages) < 1 + 2 * MaxTurns
    /\ \E q \in Questions, show \in BOOLEAN, resp \in Responses :
          /\ session_state' = script(session_state, FALSE, q, show, resp)
          /\ run' = [n |-> Len(Transcript), clear_chat |-> FALSE, q |-> q,
                     show_citations |-> show, resp |-> resp]
    /\ UNCHANGED <<serverVars, reader, loaderVars, formatVars>>

NextClient == Rerun \/ ClearChat \/ Submit

SpecClient == InitClient /\ [][NextClient]_vars

\* C9: after a run in which the button was clicked, whatever the transcript
\* held before, the transcript is the greeting alone, as after the first
\* run of the session.
C9_ClearLeavesGreeting ==
    (run # NoRun /\ run.clear_chat) =>
        /\ session_state.messages = <<Greeting>>
        /\ session_state = script(EmptyDict, FALSE, None, FALSE, NoResponse)

\* The button was clicked on a transcript of two finished turns.
C9_Witness ==
    /\ run # NoRun
    /\ run.clear_chat
    /\ run.n = 5
    /\ Len(session_state.messages) = 1

\* The backend answered 200 with a body the client can read and render.
Readable(r) ==
    /\ ~r.resp.raises
    /\ r.resp.status_code = 200
    /\ r.resp.json # None
    /\ "answer" \in DOMAIN r.resp.json => r.resp.json.answer.t = "str"
    /\ (r.show_citations /\ "citations" \in DOMAIN r.resp.json) =>
          \A i \in 1..Len(r.resp.json.citations) :
              DOMAIN r.resp.json.citations[i] # {"t", "v"}

HasPrefix(str1, prefix) ==
    Len(str1) >= Len(prefix) /\ SubSeq(str1, 1, Len(prefix)) = prefix

Alternating(ms) ==
    /\ Len(ms) >= 1 /\ Len(ms) % 2 = 1
    /\ ms[1] = Greeting
    /\ \A i \in 2..Len(ms) :
          ms[i].role = IF i % 2 = 0 THEN "user" ELSE "assistant"

\* C10: a submission appends the user message and then one assistant
\* message, the answer when the backend answered 200 readably and a
\* "Backend error" message otherwise, and keeps every earlier message; so
\* the transcript is always the greeting followed by alternating user and
\* assistant messages.
C10_SubmitAppendsTwo ==
    [][/\ Alternating(session_state'.messages)
       /\ truthy(run'.q) =>
            LET old == Transcript
                new == session_state'.messages
            IN /\ Len(new) = Len(old) + 2
               /\ SubSeq(new, 1, Len(old)) = old
               /\ new[Len(old) + 1] = [role |-> "user", content |-> run'.q.v]
               /\ new[Len(old) + 2].role = "assistant"
               /\ HasPrefix(new[Len(old) + 2].content, BackendError)
                     <=> ~Readable(run')
               /\ ("answer" \in DOMAIN run'.resp.json /\ Readable(run')
                   /\ strip(run'.resp.json.answer.v) # "") =>
                     new[Len(old) + 2].content = strip(run'.resp.json.answer.v)]_vars

\* A submission that failed was followed by one that was answered.
C10_Witness ==
    /\ "messages" \in DOMAIN session_state
    /\ Len(session_state.messages) = 5
    /\ HasPrefix(session_state.messages[3].content, BackendError)
    /\ ~HasPrefix(session_state.messages[5].content, BackendError)
    /\ truthy(run.q)

=============================================================================
